---- MODULE Spec2Model ----
(***************************************************************************)
(* Model of exercise1/exercise1.ipynb: a notebook whose code cells are run *)
(* top to bottom in one kernel.  Every code cell is one action; a cell     *)
(* that raises halts the run (the kernel stops at the first exception).    *)
(*                                                                         *)
(* Floating point values are modelled as exact rationals [n, d] with the   *)
(* IEEE special values kept: d = 0 and n = 0 is NaN, d = 0 and n = +-1 is  *)
(* +-infinity.                                                             *)
(***************************************************************************)
EXTENDS Integers, Sequences, FiniteSets, Bags, TLC

VARIABLES
    pc,           \* the code cell to execute next
    err,          \* "none", or the exception that halted the run
    ns,           \* the kernel's namespace: bound name -> value
    csv,          \* contents of coin_Bitcoin.csv (the input)
    np_random,    \* state of numpy's global RandomState
    runA, runB    \* two runs of the split stage, side by side (SpecSplit)

vars == <<pc, err, ns, csv, np_random, runA, runB>>
pipelineVars == <<pc, err, ns, csv, np_random>>

(***************************************************************************)
(* Bounds of the model.                                                    *)
(***************************************************************************)
MaxRows == 35        \* largest number of rows in the input file
MaxPairRows == 5     \* largest dataset in the two-run split scenario
MaxDraws == 2        \* global random draws made before the split (SpecSplit)

(***************************************************************************)
(* float arithmetic                                                        *)
(***************************************************************************)
Abs(i) == IF i < 0 THEN -i ELSE i
Sign(i) == IF i < 0 THEN -1 ELSE IF i > 0 THEN 1 ELSE 0

RECURSIVE GCD(_, _)
GCD(a, b) == IF b = 0 THEN a ELSE GCD(b, a % b)

Norm(n, d) ==
    IF d = 0 THEN [n |-> Sign(n), d |-> 0]
    ELSE LET g == GCD(Abs(n), Abs(d))
         IN  [n |-> (Sign(d) * n) \div g, d |-> Abs(d) \div g]

NaN == [n |-> 0, d |-> 0]
Num(i) == [n |-> i, d |-> 1]
IsNaN(a) == a.d = 0 /\ a.n = 0
IsFinite(a) == a.d > 0

Add(a, b) ==
    IF IsNaN(a) \/ IsNaN(b) THEN NaN
    ELSE IF a.d = 0 /\ b.d = 0 THEN (IF a.n = b.n THEN a ELSE NaN)
    ELSE IF a.d = 0 THEN a
    ELSE IF b.d = 0 THEN b
    ELSE Norm(a.n * b.d + b.n * a.d, a.d * b.d)
Neg(a) == [n |-> -a.n, d |-> a.d]
Sub(a, b) == Add(a, Neg(b))
Mul(a, b) == Norm(a.n * b.n, a.d * b.d)
Recip(a) == IF IsNaN(a) THEN NaN
            ELSE IF a.n = 0 THEN [n |-> 1, d |-> 0]
            ELSE Norm(a.d * Sign(a.n), Abs(a.n))
Div(a, b) == Mul(a, Recip(b))

\* comparisons are FALSE when an operand is NaN
Lt(a, b) ==
    /\ ~IsNaN(a) /\ ~IsNaN(b)
    /\ IF a.d = 0 \/ b.d = 0
       THEN (IF a.d = 0 /\ b.d = 0 THEN a.n < b.n
             ELSE IF a.d = 0 THEN a.n < 0 ELSE b.n > 0)
       ELSE a.n * b.d < b.n * a.d
Gt(a, b) == Lt(b, a)
Eq(a, b) == ~IsNaN(a) /\ ~IsNaN(b) /\ a = b
Le(a, b) == Lt(a, b) \/ Eq(a, b)

(***************************************************************************)
(* calendar arithmetic behind pd.to_datetime and the .dt accessors         *)
(***************************************************************************)
days_from_civil(yy, m, d) ==
    LET y1  == IF m <= 2 THEN yy - 1 ELSE yy
        era == y1 \div 400
        yoe == y1 - era * 400
        mp  == IF m > 2 THEN m - 3 ELSE m + 9
        doy == (153 * mp + 2) \div 5 + d - 1
        doe == yoe * 365 + yoe \div 4 - yoe \div 100 + doy
    IN  era * 146097 + doe - 719468

civil_from_days(z0) ==
    LET z   == z0 + 719468
        era == z \div 146097
        doe == z - era * 146097
        yoe == (doe - doe \div 1460 + doe \div 36524 - doe \div 146096) \div 365
        doy == doe - (365 * yoe + yoe \div 4 - yoe \div 100)
        mp  == (5 * doy + 2) \div 153
        d   == doy - (153 * mp + 2) \div 5 + 1
        m   == IF mp < 10 THEN mp + 3 ELSE mp - 9
        yy  == yoe + era * 400 + (IF m <= 2 THEN 1 ELSE 0)
    IN  [year |-> yy, month |-> m, day |-> d]

\* pd.to_datetime: the date string (its year, month, day fields) to a timestamp
to_datetime(s) == days_from_civil(s.year, s.month, s.day)
\* Monday = 0; 1970-01-01 was a Thursday
dayofweek(z) == (z + 3) % 7

(***************************************************************************)
(* helpers on sequences and tables                                         *)
(***************************************************************************)
Idx(s) == 1 .. Len(s)
Col(t, c) == [i \in Idx(t) |-> t[i][c]]
WithCol(t, c, vals) == [i \in Idx(t) |-> t[i] @@ (c :> vals[i])]
SetCol(t, c, vals) == [i \in Idx(t) |-> [t[i] EXCEPT ![c] = vals[i]]]

\* pairwise summation of s[lo .. hi], as numpy adds up an array
RECURSIVE SumRange(_, _, _)
SumRange(s, lo, hi) ==
    IF lo > hi THEN Num(0)
    ELSE IF lo = hi THEN s[lo]
    ELSE LET mid == (lo + hi) \div 2
         IN  Add(SumRange(s, lo, mid), SumRange(s, mid + 1, hi))
Sum(s) == SumRange(s, 1, Len(s))

\* Series.mean(): skips NaN, NaN when nothing is left
Mean(s) ==
    LET keep == SelectSeq(s, LAMBDA v : ~IsNaN(v))
    IN  Div(Sum(keep), Num(Len(keep)))

\* np.nanmin / np.nanmax over s[lo .. hi], lo <= hi
RECURSIVE MinRange(_, _, _)
MinRange(s, lo, hi) ==
    IF lo = hi THEN s[lo]
    ELSE LET mid == (lo + hi) \div 2
             a   == MinRange(s, lo, mid)
             b   == MinRange(s, mid + 1, hi)
         IN  IF IsNaN(a) THEN b ELSE IF Lt(b, a) THEN b ELSE a
RECURSIVE MaxRange(_, _, _)
MaxRange(s, lo, hi) ==
    IF lo = hi THEN s[lo]
    ELSE LET mid == (lo + hi) \div 2
             a   == MaxRange(s, lo, mid)
             b   == MaxRange(s, mid + 1, hi)
         IN  IF IsNaN(a) THEN b ELSE IF Gt(b, a) THEN b ELSE a
NanMin(s) == MinRange(s, 1, Len(s))
NanMax(s) == MaxRange(s, 1, Len(s))

(***************************************************************************)
(* the input file                                                          *)
(***************************************************************************)
StartDates == { [year |-> 2013, month |-> 4, day |-> 29],
                [year |-> 2019, month |-> 12, day |-> 20] }
ClosePatterns == { <<5>>, <<4, 6>>, <<3, 9, 6, 12, 7>> }
Trends == {0, 1}
HighPatterns == { <<0>>, <<2, 1, 3>> }
VolumePatterns == { <<0>>, <<7>>, <<0, 4>>, <<0, 2, 6>>, <<-1, 0, 3>> }

Cyc(p, i) == p[((i - 1) % Len(p)) + 1]

\* a file of n >= 1 daily rows: dates consecutive from start, prices positive
PriceFile(n, start, cp, tr, hp, vp) ==
    [i \in 1 .. n |->
        LET close == Cyc(cp, i) + tr * i
        IN  [Date      |-> civil_from_days(to_datetime(start) + i - 1),
             Open      |-> Num(close),
             High      |-> Num(close + Cyc(hp, i)),
             Low       |-> Num(close - 1),
             Close     |-> Num(close),
             Volume    |-> Num(Cyc(vp, i)),
             Marketcap |-> Num(close * 21)]]

PriceFiles ==
    { PriceFile(n, start, cp, tr, hp, vp) :
        n \in 1 .. MaxRows, start \in StartDates, cp \in ClosePatterns,
        tr \in Trends, hp \in HighPatterns, vp \in VolumePatterns }

(***************************************************************************)
(* pandas operations used by the cells                                     *)
(***************************************************************************)
read_csv(file) == file

\* mutant: the mean is taken over the non-zero Volumes, not the positive ones
non_zero_volumes_any_sign(t) ==
    SelectSeq(Col(t, "Volume"), LAMBDA v : ~IsNaN(v) /\ v # Num(0))

\* df[df['Volume'] > 0]['Volume']
non_zero_volumes(t) == SelectSeq(Col(t, "Volume"), LAMBDA v : Gt(v, Num(0)))

\* df.loc[df['Volume'] == 0, 'Volume'] = mean_volume
impute_volume(t, mv) ==
    SetCol(t, "Volume",
           [i \in Idx(t) |-> IF Eq(t[i].Volume, Num(0)) THEN mv
                             ELSE t[i].Volume])

\* Series.diff()
diff(s) == [i \in Idx(s) |-> IF i = 1 THEN NaN ELSE Sub(s[i], s[i - 1])]
\* Series.pct_change()
pct_change(s) ==
    [i \in Idx(s) |-> IF i = 1 THEN NaN
                      ELSE Sub(Div(s[i], s[i - 1]), Num(1))]

\* Series.rolling(window).mean(): one pass over the rows keeping the sum and
\* the count of the non-NaN observations in the window; row i enters, row
\* i - window leaves; `out` holds the means of the rows done so far.
\* min_periods defaults to the window size.
RECURSIVE roll_mean(_, _, _, _)
roll_mean(s, window, st, out) ==
    LET i == Len(out) + 1
    IN  IF i > Len(s) THEN out
        ELSE LET a == IF IsNaN(s[i]) THEN st
                      ELSE [sum |-> Add(st.sum, s[i]), nobs |-> st.nobs + 1]
                 b == IF i > window /\ ~IsNaN(s[i - window])
                      THEN [sum  |-> Sub(a.sum, s[i - window]),
                            nobs |-> a.nobs - 1]
                      ELSE a
                 v == IF b.nobs >= window /\ b.nobs > 0
                      THEN Div(b.sum, Num(b.nobs)) ELSE NaN
             IN  roll_mean(s, window, b, Append(out, v))
\* mutant: the window is one row too wide
rolling_mean_wide(s, window) ==
    roll_mean(s, window + 1, [sum |-> Num(0), nobs |-> 0], <<>>)

rolling_mean(s, window) ==
    roll_mean(s, window, [sum |-> Num(0), nobs |-> 0], <<>>)

\* mutant: dropna(how='all'), a row goes only when every column is missing
dropna_how_all(t) ==
    SelectSeq(t, LAMBDA r : \E c \in DOMAIN r \ {"Date"} : ~IsNaN(r[c]))

\* DataFrame.dropna(): keep the rows with no missing value in any column
\* (infinite values are not missing; Date holds timestamps, never NaT here)
dropna(t) ==
    SelectSeq(t, LAMBDA r : \A c \in DOMAIN r \ {"Date"} : ~IsNaN(r[c]))

(***************************************************************************)
(* scikit-learn: MinMaxScaler                                              *)
(***************************************************************************)
\* DataFrame[columns] as a 2-d array, one row per record
to_array(t, columns) ==
    [i \in Idx(t) |-> [j \in Idx(columns) |-> t[i][columns[j]]]]
\* Series.values.reshape(-1, 1) and ndarray.flatten()
reshape_column(s) == [i \in Idx(s) |-> <<s[i]>>]
flatten(M) == [i \in Idx(M) |-> M[i][1]]
ColumnOf(M, j) == [i \in Idx(M) |-> M[i][j]]

\* check_array: at least one sample, no infinite entry (NaN is allowed)
fit_raises(M) ==
    \/ Len(M) = 0
    \/ \E i \in Idx(M) : \E j \in Idx(M[i]) : M[i][j].d = 0 /\ M[i][j].n # 0

\* mutant: a zero range is used as it is
handle_zeros_in_scale_unguarded(r) == r

\* a constant column has range 0: its scale is computed from 1 instead
handle_zeros_in_scale(r) == IF Eq(r, Num(0)) THEN Num(1) ELSE r

unfitted == [fitted |-> FALSE]
fit(M) ==
    LET cols     == Idx(M[1])
        data_min == [j \in cols |-> NanMin(ColumnOf(M, j))]
        data_max == [j \in cols |-> NanMax(ColumnOf(M, j))]
        scale    == [j \in cols |->
                       Div(Num(1), handle_zeros_in_scale(
                                       Sub(data_max[j], data_min[j])))]
    IN  [fitted   |-> TRUE,
         data_min |-> data_min,
         data_max |-> data_max,
         scale_   |-> scale,
         min_     |-> [j \in cols |-> Sub(Num(0), Mul(data_min[j], scale[j]))]]

\* mutant: the offset min_ is left out
transform_without_offset(sc, M) ==
    [i \in Idx(M) |-> [j \in Idx(M[i]) |-> Mul(M[i][j], sc.scale_[j])]]

transform(sc, M) ==
    [i \in Idx(M) |-> [j \in Idx(M[i]) |->
        Add(Mul(M[i][j], sc.scale_[j]), sc.min_[j])]]
inverse_transform(sc, M) ==
    [i \in Idx(M) |-> [j \in Idx(M[i]) |->
        Div(Sub(M[i][j], sc.min_[j]), sc.scale_[j])]]

(***************************************************************************)
(* numpy RandomState (MT19937) and scikit-learn's train_test_split         *)
(***************************************************************************)
\* the low four bits of the successive 32-bit outputs of MT19937 after
\* RandomState(seed): all that draws below 16 use
MT19937Low4(seed) ==
    IF seed = 42 THEN
       <<6, 3, 12, 14, 10, 7, 12, 4, 6, 9, 2, 6, 10, 10, 7, 4, 3, 7, 7, 2, 5,
         4, 1, 7, 11, 13, 5, 1, 15, 11, 4, 0, 11, 9, 5, 12, 11, 8, 0, 10, 10,
         14, 9, 15, 11, 11, 15, 14, 13, 13, 14, 13, 2, 11, 6, 3, 15, 8, 2, 4,
         2, 6, 4, 8>>
    ELSE
       <<5, 0, 3, 9, 12, 8, 11, 7, 8, 3, 4, 3, 2, 4, 9, 3, 10, 3, 1, 3, 5, 3,
         7, 7, 9, 1, 0, 7, 10, 7, 13, 7, 8, 7, 1, 15, 0, 9, 14, 4, 0, 2, 12,
         6, 1, 10, 2, 13, 7, 1, 13, 9, 15, 3, 10, 10, 2, 13, 3, 5, 13, 13,
         15, 7>>

RandomState(seed) == [seed |-> seed, pos |-> 0]

\* the smallest 2^k - 1 that is >= max
RECURSIVE BitMask(_, _)
BitMask(max, m) == IF m >= max THEN m ELSE BitMask(max, 2 * m + 1)

\* random_interval: masked rejection sampling of a value in 0 .. max
RECURSIVE random_interval(_, _)
random_interval(rng, max) ==
    IF max = 0 THEN [val |-> 0, rng |-> rng]
    ELSE LET v    == MT19937Low4(rng.seed)[rng.pos + 1] % (BitMask(max, 0) + 1)
             next == [rng EXCEPT !.pos = @ + 1]
         IN  IF v <= max THEN [val |-> v, rng |-> next]
             ELSE random_interval(next, max)

\* RandomState.shuffle: for i = n-1 down to 1, swap arr[i] with arr[j],
\* j drawn from 0 .. i (positions are 0-based in the code)
RECURSIVE shuffle(_, _, _)
shuffle(arr, rng, i) ==
    IF i < 1 THEN arr
    ELSE LET draw == random_interval(rng, i)
             j    == draw.val
         IN  shuffle([arr EXCEPT ![i + 1] = arr[j + 1], ![j + 1] = arr[i + 1]],
                     draw.rng, i - 1)
permutation(rng, n) == shuffle([k \in 1 .. n |-> k - 1], rng, n - 1)

\* mutant: the test size is rounded down
n_test_of_floor(n_samples) == (2 * n_samples) \div 10

\* ceil(test_size * n_samples) with test_size = 0.2
n_test_of(n_samples) == (2 * n_samples + 9) \div 10
n_train_of(n_samples) == n_samples - n_test_of(n_samples)

\* _validate_shuffle_split: an empty input or an empty training set raises
split_raises(n_samples) == n_samples = 0 \/ n_train_of(n_samples) = 0

\* _safe_indexing
take(a, ind) == [k \in Idx(ind) |-> a[ind[k] + 1]]

\* mutant: random_state=None, the split draws from numpy's global generator
train_test_split_unseeded(Xs, ys, random_state, global_rng) ==
    LET n    == Len(Xs)
        perm == permutation(global_rng, n)
        test == SubSeq(perm, 1, n_test_of(n))
        train == SubSeq(perm, n_test_of(n) + 1, n_test_of(n) + n_train_of(n))
    IN  [X_train |-> take(Xs, train), X_test |-> take(Xs, test),
         y_train |-> take(ys, train), y_test |-> take(ys, test)]

\* random_state is an int here, so the split draws from its own
\* RandomState(random_state) and never from numpy's global one
train_test_split(Xs, ys, random_state, global_rng) ==
    LET n    == Len(Xs)
        perm == permutation(RandomState(random_state), n)
        test == SubSeq(perm, 1, n_test_of(n))
        train == SubSeq(perm, n_test_of(n) + 1, n_test_of(n) + n_train_of(n))
    IN  [X_train |-> take(Xs, train), X_test |-> take(Xs, test),
         y_train |-> take(ys, train), y_test |-> take(ys, test)]

(***************************************************************************)
(* constants of the notebook                                               *)
(***************************************************************************)
NumpySeed == 228
WindowMA7 == 7
WindowMA30 == 30
SplitSeed == 42
Patience == 20
Epochs == 100

features == <<"Open", "High", "Low", "Volume", "MA7", "DailyRange",
              "Year", "Month", "DayOfWeek", "DaysSinceStart">>

(***************************************************************************)
(* what each cell computes                                                 *)
(***************************************************************************)
\* cell 025ad4e8: parse Date, derive Year, Month, Day, DayOfWeek
date_features(t) ==
    [i \in Idx(t) |->
        LET z == to_datetime(t[i].Date)
            c == civil_from_days(z)
        IN  [t[i] EXCEPT !.Date = z]
              @@ [Year      |-> Num(c.year),
                  Month     |-> Num(c.month),
                  Day       |-> Num(c.day),
                  DayOfWeek |-> Num(dayofweek(z))]]

MinInt(S) == CHOOSE m \in S : \A x \in S : m <= x
\* cell db342bff: (df['Date'] - df['Date'].min()).dt.days
days_since_start(t) ==
    WithCol(t, "DaysSinceStart",
            [i \in Idx(t) |->
                Num(t[i].Date - MinInt({t[k].Date : k \in Idx(t)}))])

\* cell 89825c31
price_features(t) ==
    LET close  == Col(t, "Close")
        change == diff(close)
        pct    == pct_change(close)
    IN  [i \in Idx(t) |->
            LET range == Sub(t[i].High, t[i].Low)
            IN  t[i] @@ [PriceChange        |-> change[i],
                         PriceChangePercent |-> Mul(pct[i], Num(100)),
                         DailyRange         |-> range,
                         DailyRangePercent  |->
                             Mul(Div(range, t[i].Open), Num(100))]]

\* cell c8c28098
moving_averages(t) ==
    LET close == Col(t, "Close")
        ma7   == rolling_mean(close, WindowMA7)
        ma30  == rolling_mean(close, WindowMA30)
    IN  [i \in Idx(t) |->
            LET dist == Sub(t[i].Close, ma7[i])
            IN  t[i] @@ [MA7                |-> ma7[i],
                         MA30               |-> ma30[i],
                         DistFromMA7        |-> dist,
                         DistFromMA7Percent |->
                             Mul(Div(dist, ma7[i]), Num(100))]]

\* df_clean[features]: the table restricted to the listed columns
select(t, columns) ==
    [i \in Idx(t) |-> [c \in {columns[j] : j \in Idx(columns)} |-> t[i][c]]]

\* cell b5d86eb8, lines 495-496: X[-1:] scaled with the retained scaler_X
sample_data_scaled(env) ==
    transform(env.scaler_X,
              to_array(SubSeq(env.X, Len(env.X), Len(env.X)), features))

(***************************************************************************)
(* the cells                                                               *)
(***************************************************************************)
CellOrder ==
    <<"imports", "seed", "load", "check_missing", "count_zero_volume",
      "impute_volume", "date_features", "days_since_start", "feature_notes",
      "price_features", "moving_averages", "dropna", "plot_price",
      "correlation", "heatmap", "print_correlation", "scale", "split",
      "build_model", "early_stop", "fit", "plot_loss", "plot_mae",
      "evaluate", "plot_predictions", "predict_sample", "conclusions">>

\* the names each cell reads that it does not bind itself
CellReads ==
    [imports           |-> {},
     seed              |-> {"np"},
     load              |-> {"pd"},
     check_missing     |-> {"df"},
     count_zero_volume |-> {"df"},
     impute_volume     |-> {"df"},
     date_features     |-> {"df", "pd"},
     days_since_start  |-> {"df"},
     feature_notes     |-> {},
     price_features    |-> {"df"},
     moving_averages   |-> {"df"},
     dropna            |-> {"df"},
     plot_price        |-> {"plt", "df_clean"},
     correlation       |-> {"df_clean"},
     heatmap           |-> {"plt", "sns", "correlation_matrix"},
     print_correlation |-> {"correlation_matrix"},
     scale             |-> {"df_clean", "MinMaxScaler"},
     split             |-> {"train_test_split", "X_scaled", "y_scaled"},
     build_model       |-> {"Sequential", "Dense", "Adam", "X_train"},
     early_stop        |-> {"EarlyStopping"},
     fit               |-> {"model", "X_train", "y_train",
                            "checkpoint_callback", "early_stop"},
     plot_loss         |-> {"plt", "history"},
     plot_mae          |-> {"plt", "history"},
     evaluate          |-> {"model", "X_test", "y_test", "scaler_y",
                            "metrics", "np"},
     plot_predictions  |-> {"plt", "np", "y_test_original", "y_pred"},
     predict_sample    |-> {"X", "scaler_X", "scaler_y", "model", "df_clean",
                            "features"},
     conclusions       |-> {}]

Bind(f) == f @@ ns

Raise(e, env) == pc' = pc /\ err' = e /\ ns' = env

\* a cell that can fail only on an unbound name
Cell(c, next, env) ==
    /\ pc = c /\ err = "none"
    /\ IF CellReads[c] \subseteq DOMAIN ns
       THEN pc' = next /\ err' = "none" /\ ns' = env
       ELSE Raise("NameError", ns)

Imports ==
    /\ Cell("imports", "seed",
            Bind([n \in {"pd", "np", "plt", "sns", "train_test_split",
                         "MinMaxScaler", "metrics", "Sequential", "Dense",
                         "ModelCheckpoint", "EarlyStopping", "Adam"}
                     |-> "imported"]))
    /\ UNCHANGED <<csv, np_random, runA, runB>>

SetSeed ==
    /\ Cell("seed", "load", ns)
    /\ np_random' = IF "np" \in DOMAIN ns THEN RandomState(NumpySeed)
                    ELSE np_random
    /\ UNCHANGED <<csv, runA, runB>>

LoadDataset ==
    /\ Cell("load", "check_missing", Bind([df |-> read_csv(csv)]))
    /\ UNCHANGED <<csv, np_random, runA, runB>>

CheckMissing ==
    /\ Cell("check_missing", "count_zero_volume", ns)
    /\ UNCHANGED <<csv, np_random, runA, runB>>

CountZeroVolume ==
    /\ Cell("count_zero_volume", "impute_volume",
            Bind([zero_volume_count |->
                    Cardinality({i \in Idx(ns.df) :
                                    Eq(ns.df[i].Volume, Num(0))})]))
    /\ UNCHANGED <<csv, np_random, runA, runB>>

ImputeVolume ==
    /\ Cell("impute_volume", "date_features",
            LET nzv == non_zero_volumes(ns.df)
            IN  Bind([non_zero_volumes |-> nzv,
                      mean_volume      |-> Mean(nzv),
                      df               |-> impute_volume(ns.df, Mean(nzv))]))
    /\ UNCHANGED <<csv, np_random, runA, runB>>

DateFeatures ==
    /\ Cell("date_features", "days_since_start",
            Bind([df |-> date_features(ns.df)]))
    /\ UNCHANGED <<csv, np_random, runA, runB>>

DaysSinceStart ==
    /\ Cell("days_since_start", "feature_notes",
            Bind([df |-> days_since_start(ns.df)]))
    /\ UNCHANGED <<csv, np_random, runA, runB>>

FeatureNotes ==
    /\ Cell("feature_notes", "price_features", ns)
    /\ UNCHANGED <<csv, np_random, runA, runB>>

PriceFeatures ==
    /\ Cell("price_features", "moving_averages",
            Bind([df |-> price_features(ns.df)]))
    /\ UNCHANGED <<csv, np_random, runA, runB>>

MovingAverages ==
    /\ Cell("moving_averages", "dropna",
            Bind([df |-> moving_averages(ns.df)]))
    /\ UNCHANGED <<csv, np_random, runA, runB>>

DropNa ==
    /\ Cell("dropna", "plot_price", Bind([df_clean |-> dropna(ns.df)]))
    /\ UNCHANGED <<csv, np_random, runA, runB>>

PlotPriceHistory ==
    /\ Cell("plot_price", "correlation", ns)
    /\ UNCHANGED <<csv, np_random, runA, runB>>

CorrelationMatrix ==
    /\ Cell("correlation", "heatmap",
            Bind([correlation_matrix |->
                    <<"Open", "High", "Low", "Close", "Volume", "Marketcap",
                      "MA7", "MA30", "DailyRange", "PriceChange">>]))
    /\ UNCHANGED <<csv, np_random, runA, runB>>

PlotHeatmap ==
    /\ Cell("heatmap", "print_correlation", ns)
    /\ UNCHANGED <<csv, np_random, runA, runB>>

PrintCorrelation ==
    /\ Cell("print_correlation", "scale", ns)
    /\ UNCHANGED <<csv, np_random, runA, runB>>

\* cell 7c7ddfdb: the names are bound statement by statement, so what was
\* bound before a fit_transform raised stays bound
ScaleFeatures ==
    /\ pc = "scale" /\ err = "none"
    /\ IF ~(CellReads["scale"] \subseteq DOMAIN ns)
       THEN Raise("NameError", ns)
       ELSE LET Xdf  == select(ns.df_clean, features)
                yser == Col(ns.df_clean, "Close")
                env1 == [features |-> features, X |-> Xdf, y |-> yser,
                         scaler_X |-> unfitted, scaler_y |-> unfitted] @@ ns
                XA   == to_array(Xdf, features)
                yA   == reshape_column(yser)
                env2 == [scaler_X |-> fit(XA),
                         X_scaled |-> transform(fit(XA), XA)] @@ env1
            IN  IF fit_raises(XA) THEN Raise("ValueError", env1)
                ELSE IF fit_raises(yA) THEN Raise("ValueError", env2)
                ELSE /\ pc' = "split" /\ err' = "none"
                     /\ ns' = [scaler_y |-> fit(yA),
                               y_scaled |-> flatten(transform(fit(yA), yA))]
                                @@ env2
    /\ UNCHANGED <<csv, np_random, runA, runB>>

\* cell b865fa2b
SplitTrainTest ==
    /\ pc = "split" /\ err = "none"
    /\ IF ~(CellReads["split"] \subseteq DOMAIN ns)
       THEN Raise("NameError", ns)
       ELSE IF split_raises(Len(ns.X_scaled)) THEN Raise("ValueError", ns)
       ELSE /\ pc' = "build_model" /\ err' = "none"
            /\ ns' = Bind(train_test_split(ns.X_scaled, ns.y_scaled,
                                           SplitSeed, np_random))
    /\ UNCHANGED <<csv, np_random, runA, runB>>

\* cell c197b795: Dense 64-32-16-1, compiled with Adam and mse; the weights
\* are the initial ones until a training run changes them
BuildModel ==
    /\ Cell("build_model", "early_stop",
            Bind([model |-> [units       |-> <<64, 32, 16, 1>>,
                             input_shape |-> Len(ns.X_train[1]),
                             loss        |-> "mse",
                             weights     |-> "initial",
                             epochs_run  |-> 0],
                  optimizer |-> "Adam"]))
    /\ UNCHANGED <<csv, np_random, runA, runB>>

\* cell 12925da5
MakeEarlyStop ==
    /\ Cell("early_stop", "fit",
            Bind([early_stop |-> [monitor              |-> "val_loss",
                                  patience             |-> Patience,
                                  restore_best_weights |-> TRUE,
                                  wait                 |-> 0,
                                  stopped_epoch        |-> 0,
                                  best_weights         |-> "None"]]))
    /\ UNCHANGED <<csv, np_random, runA, runB>>

\* cell 2d0dd7b6: no cell binds checkpoint_callback, so evaluating the
\* arguments of model.fit raises NameError before fit is entered; the
\* cells after this one are never reached by a top-to-bottom run
FitModel ==
    /\ pc = "fit" /\ err = "none"
    /\ ~(CellReads["fit"] \subseteq DOMAIN ns)
    /\ Raise("NameError", ns)
    /\ UNCHANGED <<csv, np_random, runA, runB>>

(***************************************************************************)
(* the run of the notebook                                                 *)
(***************************************************************************)
EmptySplit == [X_train |-> <<>>, X_test |-> <<>>,
               y_train |-> <<>>, y_test |-> <<>>]
IdleRun == [X_scaled |-> <<>>, y_scaled |-> <<>>,
            rng |-> RandomState(NumpySeed), draws |-> 0,
            done |-> FALSE, raised |-> FALSE, out |-> EmptySplit]

Init ==
    /\ pc = "imports"
    /\ err = "none"
    /\ ns = <<>>
    /\ csv \in PriceFiles
    /\ np_random = RandomState(0)    \* not yet seeded by the notebook
    /\ runA = IdleRun
    /\ runB = IdleRun

Next ==
    \/ Imports
    \/ SetSeed
    \/ LoadDataset
    \/ CheckMissing
    \/ CountZeroVolume
    \/ ImputeVolume
    \/ DateFeatures
    \/ DaysSinceStart
    \/ FeatureNotes
    \/ PriceFeatures
    \/ MovingAverages
    \/ DropNa
    \/ PlotPriceHistory
    \/ CorrelationMatrix
    \/ PlotHeatmap
    \/ PrintCorrelation
    \/ ScaleFeatures
    \/ SplitTrainTest
    \/ BuildModel
    \/ MakeEarlyStop
    \/ FitModel

Spec == Init /\ [][Next]_vars

(***************************************************************************)
(* two runs of the split stage side by side: datasets of the same row      *)
(* count whose values differ, each run having made its own number of       *)
(* draws from numpy's global generator before it splits                    *)
(***************************************************************************)
PairValues == { <<3, 1, 4, 1, 5, 9>>, <<2, 7, 1, 8, 2, 8>>, <<6>> }

\* a scaled dataset of n rows: the first feature is the scaled row position
\* (DaysSinceStart), the second feature and the target come from vals
PairDataset(n, vals) ==
    [X_scaled |-> [i \in 1 .. n |->
                     <<Div(Num(i - 1), Num(IF n > 1 THEN n - 1 ELSE 1)),
                       Div(Num(Cyc(vals, i)), Num(9))>>],
     y_scaled |-> [i \in 1 .. n |-> Div(Num(Cyc(vals, i + 1)), Num(9))]]

PairRun(n, vals) ==
    [IdleRun EXCEPT !.X_scaled = PairDataset(n, vals).X_scaled,
                    !.y_scaled = PairDataset(n, vals).y_scaled]

InitSplit ==
    /\ pc = "imports"
    /\ err = "none"
    /\ ns = <<>>
    /\ csv = <<>>
    /\ np_random = RandomState(0)
    /\ \E n \in 0 .. MaxPairRows : \E va \in PairValues, vb \in PairValues :
          runA = PairRun(n, va) /\ runB = PairRun(n, vb)

\* a draw from numpy's global generator (np.random.*) before the split
draw(run) == [run EXCEPT !.rng.pos = @ + 1, !.draws = @ + 1]

\* the split stage of one run (cell b865fa2b)
split_stage(run) ==
    IF split_raises(Len(run.X_scaled))
    THEN [run EXCEPT !.done = TRUE, !.raised = TRUE]
    ELSE [run EXCEPT !.done = TRUE,
                     !.out = train_test_split(run.X_scaled, run.y_scaled,
                                              SplitSeed, run.rng)]

DrawA ==
    /\ ~runA.done /\ runA.draws < MaxDraws
    /\ runA' = draw(runA)
    /\ UNCHANGED <<pipelineVars, runB>>
DrawB ==
    /\ ~runB.done /\ runB.draws < MaxDraws
    /\ runB' = draw(runB)
    /\ UNCHANGED <<pipelineVars, runA>>
SplitA ==
    /\ ~runA.done
    /\ runA' = split_stage(runA)
    /\ UNCHANGED <<pipelineVars, runB>>
SplitB ==
    /\ ~runB.done
    /\ runB' = split_stage(runB)
    /\ UNCHANGED <<pipelineVars, runA>>

NextSplit == DrawA \/ DrawB \/ SplitA \/ SplitB

SpecSplit == InitSplit /\ [][NextSplit]_vars

(***************************************************************************)
(* helpers of the properties                                               *)
(***************************************************************************)
Pos(c) == CHOOSE k \in Idx(CellOrder) : CellOrder[k] = c
\* the run has gone past cell c
After(c) == Pos(pc) > Pos(c)
\* cell c has been executed, to its end or to an exception
Executed(c) == After(c) \/ (pc = c /\ err # "none")
Has(name) == name \in DOMAIN ns

InUnit(v) == Le(Num(0), v) /\ Le(v, Num(1))
Rows(M) == {M[i] : i \in Idx(M)}
Pairs(Xs, ys) == [i \in Idx(Xs) |-> <<Xs[i], ys[i]>>]
SeqToBag(s) == [x \in Rows(s) |-> Cardinality({i \in Idx(s) : s[i] = x})]

\* sum of the strictly positive input Volumes among rows lo .. hi
RECURSIVE PositiveVolumeSum(_, _, _)
PositiveVolumeSum(t, lo, hi) ==
    IF lo > hi THEN Num(0)
    ELSE IF lo = hi
         THEN (IF t[lo].Volume.n > 0 /\ t[lo].Volume.d > 0 THEN t[lo].Volume
               ELSE Num(0))
    ELSE Add(PositiveVolumeSum(t, lo, (lo + hi) \div 2),
             PositiveVolumeSum(t, (lo + hi) \div 2 + 1, hi))
PositiveVolumeCount(t) ==
    Cardinality({i \in Idx(t) : t[i].Volume.n > 0 /\ t[i].Volume.d > 0})

(***************************************************************************)
(* C1 (as claimed): df_clean has N - 29 rows when N > 29 and 0 rows        *)
(* otherwise, whatever the Volumes are, and the rows dropped are exactly   *)
(* the 29 earliest rows of the table.                                      *)
(***************************************************************************)
C1_RowsAfterCleaning ==
    Has("df_clean") =>
        /\ Len(ns.df_clean) = IF Len(csv) > 29 THEN Len(csv) - 29 ELSE 0
        /\ ns.df_clean = SubSeq(ns.df, 30, Len(csv))

C3_FailsBeforeScaling ==
    Len(csv) < 30 =>
        /\ Has("df_clean") => Len(ns.df_clean) = 0
        /\ ~(pc = "scale" /\ err = "none")

(***************************************************************************)
(* C3 (amended): with 1 to 29 input rows df_clean is empty, no cell before *)
(* the scaling cell raises, and the scaling cell itself raises ValueError  *)
(* when scaler_X.fit_transform is given the empty table: X_scaled is never *)
(* bound and the splitting and training cells are never reached.           *)
(***************************************************************************)
C3_FailsInScaling ==
    (Len(csv) >= 1 /\ Len(csv) < 30) =>
        /\ Has("df_clean") => Len(ns.df_clean) = 0
        /\ ~After("scale")
        /\ err # "none" => (pc = "scale" /\ err = "ValueError")
        /\ Executed("scale") => (err = "ValueError" /\ Has("scaler_X")
                                  /\ ~ns.scaler_X.fitted)
        /\ ~Has("X_scaled") /\ ~Has("X_train") /\ ~Has("model")

C3_Witness ==
    /\ Len(csv) = 29 /\ pc = "scale" /\ err = "ValueError"
    /\ Len(ns.X) = 0

(***************************************************************************)
(* C4 (as claimed): every name a cell reads was bound by an earlier cell.  *)
(***************************************************************************)
C4_NamesBound ==
    err = "none" => CellReads[pc] \subseteq DOMAIN ns

(***************************************************************************)
(* C5: MA7[t] is the mean of Close over rows t-6 .. t for t >= 6 and       *)
(* undefined before; MA30[t] is the mean of Close over rows t-29 .. t for  *)
(* t >= 29 and undefined before (t counts rows from 0).                    *)
(***************************************************************************)
C5_MovingAverages ==
    pc = "dropna" =>
        LET close == Col(ns.df, "Close")
        IN  \A i \in Idx(ns.df) :
              /\ IF i >= 7
                 THEN ns.df[i].MA7 = Div(SumRange(close, i - 6, i), Num(7))
                 ELSE IsNaN(ns.df[i].MA7)
              /\ IF i >= 30
                 THEN ns.df[i].MA30 = Div(SumRange(close, i - 29, i), Num(30))
                 ELSE IsNaN(ns.df[i].MA30)

C5_Witness ==
    /\ pc = "dropna" /\ Len(ns.df) > 30
    /\ IsFinite(ns.df[31].MA30) /\ ns.df[31].MA30 # ns.df[30].MA30
    /\ ns.df[8].MA7 # ns.df[7].MA7 /\ ns.df[8].MA7 # ns.df[8].Close

(***************************************************************************)
(* C6 (as claimed): once the training cell has run, a training history of  *)
(* at most 100 epochs exists, training stopped short of 100 epochs exactly *)
(* when the patience of 20 epochs ran out, and the model holds the weights *)
(* of the best epoch.                                                      *)
(***************************************************************************)
C6_TrainingOutcome ==
    Executed("fit") =>
        /\ Has("history")
        /\ ns.model.epochs_run <= Epochs
        /\ (ns.model.epochs_run < Epochs) <=> (ns.early_stop.wait >= Patience)
        /\ ns.model.weights = "best_epoch"

(***************************************************************************)
(* C7: two runs of the split stage on datasets of the same row count give  *)
(* the same rows (by position) to the training subset and to the test      *)
(* subset, whatever the row values and however many global random draws    *)
(* each run made before.  Rows are identified by their first feature, the  *)
(* scaled row position.                                                    *)
(***************************************************************************)
RowKeys(M) == {M[i][1] : i \in Idx(M)}

C7_SplitDeterminism ==
    (runA.done /\ runB.done) =>
        /\ runA.raised = runB.raised
        /\ RowKeys(runA.out.X_train) = RowKeys(runB.out.X_train)
        /\ RowKeys(runA.out.X_test) = RowKeys(runB.out.X_test)

C7_Witness ==
    /\ runA.done /\ runB.done /\ ~runA.raised
    /\ Len(runA.X_scaled) = Len(runB.X_scaled)
    /\ runA.X_scaled # runB.X_scaled /\ runA.y_scaled # runB.y_scaled
    /\ runA.draws # runB.draws
    /\ Len(runA.out.X_test) >= 1 /\ Len(runA.out.X_train) >= 3

(***************************************************************************)
(* C8: for every feature column and for the target, constant columns       *)
(* included, inverse-scaling the stored scaled values with the retained    *)
(* scalers gives back the original values (exactly, in exact arithmetic),  *)
(* and from the scaling cell on the retained scalers are the ones fitted   *)
(* on the full usable dataset: their data_min and data_max are the minimum *)
(* and maximum over all rows of df_clean.                                  *)
(***************************************************************************)
FittedOn(sc, M) ==
    /\ sc.fitted
    /\ \A j \in Idx(M[1]) :
          /\ \E i \in Idx(M) : M[i][j] = sc.data_min[j]
          /\ \E i \in Idx(M) : M[i][j] = sc.data_max[j]
          /\ \A i \in Idx(M) : /\ Le(sc.data_min[j], M[i][j])
                               /\ Le(M[i][j], sc.data_max[j])

C8_ScalingRoundTrip ==
    Has("y_scaled") =>
        LET XA == to_array(ns.df_clean, features)
            yA == reshape_column(Col(ns.df_clean, "Close"))
        IN  /\ inverse_transform(ns.scaler_X, ns.X_scaled) = XA
            /\ inverse_transform(ns.scaler_y, reshape_column(ns.y_scaled)) = yA
            /\ FittedOn(ns.scaler_X, XA)
            /\ FittedOn(ns.scaler_y, yA)

\* a constant column (Year) beside a varying one, after the scaling cell
C8_Witness ==
    /\ After("split") /\ Len(ns.X_scaled) >= 3
    /\ ns.scaler_X.data_min[7] = ns.scaler_X.data_max[7]
    /\ ns.scaler_X.data_min[1] # ns.scaler_X.data_max[1]
    /\ ns.X_scaled[1][7] = Num(0)

(***************************************************************************)
(* C9 (as claimed): for every usable dataset of n >= 1 rows the split      *)
(* yields disjoint training and test subsets that together hold every row  *)
(* once, the test subset with ceil(0.2 n) rows and the training subset     *)
(* with the rest (971 rows: 776 and 195), features and targets paired.     *)
(***************************************************************************)
PartitionOk ==
    /\ Has("X_train") /\ Has("X_test") /\ Has("y_train") /\ Has("y_test")
    /\ LET n     == Len(ns.X_scaled)
           train == Pairs(ns.X_train, ns.y_train)
           test  == Pairs(ns.X_test, ns.y_test)
       IN  /\ Len(ns.y_train) = Len(ns.X_train)
           /\ Len(ns.y_test) = Len(ns.X_test)
           /\ 5 * Len(test) >= n /\ 5 * (Len(test) - 1) < n
           /\ Len(train) = n - Len(test)
           /\ Rows(train) \cap Rows(test) = {}
           /\ SeqToBag(train) (+) SeqToBag(test)
                = SeqToBag(Pairs(ns.X_scaled, ns.y_scaled))
    /\ n_test_of(971) = 195 /\ n_train_of(971) = 776

C9_PartitionAnySize ==
    (Executed("split") /\ Len(ns.X_scaled) >= 1) => PartitionOk

(***************************************************************************)
(* C9 (amended): the same for every usable dataset of n >= 2 rows; with    *)
(* n = 1 the training subset would be empty and the split raises           *)
(* ValueError, binding no subset.                                          *)
(***************************************************************************)
C9_Partition ==
    Executed("split") =>
        IF Len(ns.X_scaled) >= 2 THEN PartitionOk
        ELSE err = "ValueError" /\ pc = "split" /\ ~Has("X_train")

C9_Witness ==
    /\ After("split") /\ Len(ns.X_scaled) = 6
    /\ Len(ns.X_test) = 2 /\ Len(ns.X_train) = 4

(***************************************************************************)
(* C10: every entry of the scaled features and of the scaled target lies   *)
(* in [0,1], in the full arrays, in the training and test subsets, and in  *)
(* the most recent row scaled again with the retained feature scaler.      *)
(***************************************************************************)
AllInUnit(M) == \A i \in Idx(M) : \A j \in Idx(M[i]) : InUnit(M[i][j])

C10_ScaledRange ==
    /\ Has("X_scaled") =>
          /\ AllInUnit(ns.X_scaled)
          /\ AllInUnit(sample_data_scaled(ns))
    /\ Has("y_scaled") => AllInUnit(reshape_column(ns.y_scaled))
    /\ Has("X_train") =>
          /\ AllInUnit(ns.X_train) /\ AllInUnit(ns.X_test)
          /\ AllInUnit(reshape_column(ns.y_train))
          /\ AllInUnit(reshape_column(ns.y_test))

C10_Witness ==
    /\ Has("X_train") /\ Len(ns.X_train) >= 3
    /\ \E i \in Idx(ns.X_train) : \E j \in Idx(ns.X_train[i]) :
          Lt(Num(0), ns.X_train[i][j]) /\ Lt(ns.X_train[i][j], Num(1))
    /\ \E i \in Idx(ns.X_test) : ns.X_test[i][10] \in {Num(0), Num(1)}
    /\ sample_data_scaled(ns)[1][10] = Num(1)

====
